---- MODULE Spec2Model ----
(***************************************************************************)
(* Model of the LaTeX repair-and-compile pipeline of the resume backend:   *)
(*   backend/routes/resume.js        (route handler, page-count guard)     *)
(*   backend/utils/latex-compiler.js (src/unnamed/part_004, lines 140-916) *)
(*                                                                         *)
(* A document is a sequence of tokens.  A token stands for a fixed run of  *)
(* characters (Width gives the number of characters), so that the length   *)
(* of a document, its braces, its backslashes and its document markers     *)
(* are the ones the JavaScript string functions see.                       *)
(***************************************************************************)
EXTENDS Integers, Sequences, FiniteSets, TLC

(***************************************************************************)
(* Tokens                                                                  *)
(*   DC   \documentclass          BD   \begin{document}                    *)
(*   ED   \end{document}          BDo  \begin{document   (brace removed)   *)
(*   EDo  \end{document  (brace removed)                                   *)
(*   SC   \textsc     TB   \textbf     TI   \textit     TT   \texttt       *)
(*   BS   one backslash           x    one letter                          *)
(*   BT   one backtick            T    a run of BlockLen letters           *)
(*   latex / tex  the words that tag a code fence                          *)
(*   SP   one blank               NL   one newline                         *)
(*   every other token is the character it shows                           *)
(***************************************************************************)
BlockLen == 5956

Width(t) ==
  CASE t = "DC" -> 14
    [] t = "BD" -> 16
    [] t = "ED" -> 14
    [] t = "BDo" -> 15
    [] t = "EDo" -> 13
    [] t = "SC" -> 7
    [] t = "TB" -> 7
    [] t = "TI" -> 7
    [] t = "TT" -> 7
    [] t = "T" -> BlockLen
    [] t = "latex" -> 5
    [] t = "tex" -> 3
    [] OTHER -> 1

RECURSIVE docLength(_)
docLength(s) == IF s = <<>> THEN 0 ELSE Width(Head(s)) + docLength(Tail(s))

\* JavaScript null / undefined (never a token sequence of the alphabet)
Null == <<"null">>

IsSpace(t) == t \in {"SP", "NL"}

RECURSIVE trimStart(_)
trimStart(s) ==
  IF s # <<>> /\ IsSpace(Head(s)) THEN trimStart(Tail(s)) ELSE s

RECURSIVE trimEnd(_)
trimEnd(s) ==
  IF s # <<>> /\ IsSpace(s[Len(s)]) THEN trimEnd(SubSeq(s, 1, Len(s) - 1)) ELSE s

trim(s) == trimEnd(trimStart(s))

includes(s, t) == \E i \in 1..Len(s) : s[i] = t

\* String.prototype.lastIndexOf of a one-token needle, 0 when absent
lastIndexOf(s, t) ==
  IF includes(s, t)
    THEN CHOOSE i \in 1..Len(s) : s[i] = t /\ \A j \in (i + 1)..Len(s) : s[j] # t
    ELSE 0

RECURSIVE repeat(_, _)
repeat(t, n) == IF n <= 0 THEN <<>> ELSE <<t>> \o repeat(t, n - 1)

(***************************************************************************)
(* extractLatexFromResponse: trim, take the content of the first code      *)
(* fence when there is one, accept only with both document markers.        *)
(***************************************************************************)
isFenceAt(s, i) ==
  i >= 1 /\ i + 2 <= Len(s) /\ s[i] = "BT" /\ s[i + 1] = "BT" /\ s[i + 2] = "BT"

\* first position >= from where three backticks start, 0 when there is none
fenceFrom(s, from) ==
  IF \E i \in from..Len(s) : isFenceAt(s, i)
    THEN CHOOSE i \in from..Len(s) : isFenceAt(s, i) /\ \A j \in from..(i - 1) : ~isFenceAt(s, j)
    ELSE 0

\* the same with the closing fence taken as the last one of the text
fenceContentGreedy(latex) ==
  LET open == fenceFrom(latex, 1)
      afterTag == IF open > 0 /\ open + 3 <= Len(latex) /\ latex[open + 3] \in {"latex", "tex"}
                    THEN open + 4 ELSE open + 3
      close == IF open = 0 \/ fenceFrom(latex, afterTag) = 0 THEN 0
               ELSE CHOOSE i \in afterTag..Len(latex) :
                      isFenceAt(latex, i) /\ \A j \in (i + 1)..Len(latex) : ~isFenceAt(latex, j)
  IN  IF open = 0 \/ close = 0
        THEN Null
        ELSE trimStart(SubSeq(latex, afterTag, close - 1))

\* latex.match(/```(?:latex|tex)?\s*([\s\S]*?)```/): group 1, Null without a match
fenceContent(latex) ==
  LET open == fenceFrom(latex, 1)
      afterTag == IF open > 0 /\ open + 3 <= Len(latex) /\ latex[open + 3] \in {"latex", "tex"}
                    THEN open + 4 ELSE open + 3
      close == IF open = 0 THEN 0 ELSE fenceFrom(latex, afterTag)
  IN  IF open = 0 \/ close = 0
        THEN Null
        ELSE trimStart(SubSeq(latex, afterTag, close - 1))

hasBothMarkersLoose(latex) == includes(latex, "DC")

hasEitherMarker(latex) == includes(latex, "DC") \/ includes(latex, "ED")

hasBothMarkers(latex) == includes(latex, "DC") /\ includes(latex, "ED")

extractLatexFromResponse(text) ==
  IF text = Null \/ text = <<>>
    THEN Null
    ELSE LET trimmed == trim(text)
             fenced == fenceContent(trimmed)
             latex == IF fenced # Null THEN trim(fenced) ELSE trimmed
         IN  IF hasBothMarkers(latex) THEN latex ELSE Null

(***************************************************************************)
(* sanitizeLatex and its passes                                            *)
(***************************************************************************)

\* index of the first token of the line that holds position i
lineStart(s, i) ==
  IF \E j \in 1..(i - 1) : s[j] = "NL"
    THEN 1 + CHOOSE j \in 1..(i - 1) : s[j] = "NL" /\ \A k \in (j + 1)..(i - 1) : s[k] # "NL"
    ELSE 1

\* only blanks between the start of the line and position i
atLineStart(s, i) == \A j \in lineStart(s, i)..(i - 1) : s[j] = "SP"

\* the line of position i, trimmed, starts with % or \documentclass
\* (the other skipped prefixes, \def, \newcommand, \usepackage, \input,
\* \include, have no token in the alphabet)
lineIsSkipped(s, i) ==
  \E j \in lineStart(s, i)..Len(s) :
     /\ \A k \in lineStart(s, i)..(j - 1) : s[k] = "SP"
     /\ s[j] \in {"%", "DC"}

RECURSIVE escapeHashFrom(_, _)
escapeHashFrom(s, i) ==
  IF i > Len(s) THEN <<>>
  ELSE IF /\ s[i] = "#"
          /\ ~lineIsSkipped(s, i)
          /\ ~(i > 1 /\ s[i - 1] = "BS")
          /\ ~(i < Len(s) /\ s[i + 1] = "9")
       THEN <<"BS", "#">> \o escapeHashFrom(s, i + 1)
       ELSE <<s[i]>> \o escapeHashFrom(s, i + 1)

fixUnescapedSpecialChars(latex) == escapeHashFrom(latex, 1)

\* net number of unescaped braces inside a multi-character token
braceNet(t) == IF t \in {"BDo", "EDo"} THEN 1 ELSE 0

\* the scan of fixUnbalancedBraces: a backslash skips the next character.
\* (The verbatim tests of the loop are never reached with a backslash at
\* position i, so they never fire.)
RECURSIVE braceDepth(_, _, _, _)
braceDepth(s, i, skip, depth) ==
  IF i > Len(s) THEN depth
  ELSE LET t == s[i] IN
    IF skip
      THEN braceDepth(s, i + 1, FALSE, depth + braceNet(t))
      ELSE IF t = "BS"
        THEN braceDepth(s, i + 1, i < Len(s), depth)
        ELSE IF t = "{" THEN braceDepth(s, i + 1, FALSE, depth + 1)
        ELSE IF t = "}" THEN braceDepth(s, i + 1, FALSE, depth - 1)
        ELSE braceDepth(s, i + 1, FALSE, depth + braceNet(t))

\* tokens whose text holds a } character
holdsRightBrace(t) == t \in {"}", "BD", "ED"}

\* the while loop removing excess } from the end of the text before the
\* last \end{document}
RECURSIVE removeExcess(_, _)
removeExcess(cleaned, toRemove) ==
  IF toRemove <= 0 \/ ~(\E i \in 1..Len(cleaned) : holdsRightBrace(cleaned[i]))
    THEN cleaned
    ELSE LET lastBrace == CHOOSE i \in 1..Len(cleaned) :
                            /\ holdsRightBrace(cleaned[i])
                            /\ \A j \in (i + 1)..Len(cleaned) : ~holdsRightBrace(cleaned[j])
             pre == SubSeq(cleaned, 1, lastBrace - 1)
             post == SubSeq(cleaned, lastBrace + 1, Len(cleaned))
         IN  IF cleaned[lastBrace] = "ED"
               THEN cleaned
               ELSE IF cleaned[lastBrace] = "BD"
                 THEN removeExcess(pre \o <<"BDo">> \o post, toRemove - 1)
                 ELSE removeExcess(pre \o post, toRemove - 1)

closersAfterEnd(beforeEnd, closingBraces, afterEnd) ==
  beforeEnd \o afterEnd \o closingBraces

\* latex.substring(0, endDocIdx) + closingBraces + '\n' + latex.substring(endDocIdx)
closersBeforeEnd(beforeEnd, closingBraces, afterEnd) ==
  beforeEnd \o closingBraces \o <<"NL">> \o afterEnd

fixUnbalancedBraces(latex) ==
  LET depth == braceDepth(latex, 1, FALSE, 0)
      endDocIdx == lastIndexOf(latex, "ED")
      beforeEnd == IF endDocIdx # 0 THEN SubSeq(latex, 1, endDocIdx - 1) ELSE latex
      afterEnd == IF endDocIdx # 0 THEN SubSeq(latex, endDocIdx, Len(latex)) ELSE <<>>
  IN  IF depth > 0
        THEN IF endDocIdx # 0
               THEN closersBeforeEnd(beforeEnd, repeat("}", depth), afterEnd)
               ELSE latex \o repeat("}", depth)
        ELSE IF depth < 0
          THEN removeExcess(beforeEnd, -depth) \o afterEnd
          ELSE latex

\* /^([ \t]*)\\\\(section|...|textbf|textit|...|begin|end|...)(\{)/gm -> '$1\\$2$3'
RECURSIVE undoubleFrom(_, _)
undoubleFrom(s, i) ==
  IF i > Len(s) THEN <<>>
  ELSE IF /\ s[i] = "BS"
          /\ atLineStart(s, i)
          /\ i < Len(s)
          /\ \/ s[i + 1] \in {"BD", "ED", "BDo", "EDo"}
             \/ s[i + 1] \in {"TB", "TI"} /\ i + 1 < Len(s) /\ s[i + 2] = "{"
       THEN undoubleFrom(s, i + 1)
       ELSE <<s[i]>> \o undoubleFrom(s, i + 1)

\* end of the run of white space that starts at position i
RECURSIVE spaceRunEnd(_, _)
spaceRunEnd(s, i) ==
  IF i <= Len(s) /\ IsSpace(s[i]) THEN spaceRunEnd(s, i + 1) ELSE i

\* /\\\\\s*\n([ \t]*\\(?:section|subsection|begin))/g -> '\n$1'
RECURSIVE stripBreakFrom(_, _)
stripBreakFrom(s, i) ==
  IF i > Len(s) THEN <<>>
  ELSE LET k == spaceRunEnd(s, i + 2)
           hit == /\ s[i] = "BS"
                  /\ i < Len(s) /\ s[i + 1] = "BS"
                  /\ k <= Len(s) /\ s[k] \in {"BD", "BDo"}
                  /\ \E j \in (i + 2)..(k - 1) : s[j] = "NL"
       IN  IF hit
             THEN <<"NL">> \o SubSeq(s, lineStart(s, k), k) \o stripBreakFrom(s, k + 1)
             ELSE <<s[i]>> \o stripBreakFrom(s, i + 1)

stripBreakBeforeCommand(latex) == stripBreakFrom(latex, 1)

\* /\\textbf\{\s*\}/g -> '' and /\\textit\{\s*\}/g -> '' (cmd is TB or TI)
RECURSIVE dropEmptyFrom(_, _, _)
dropEmptyFrom(s, cmd, i) ==
  IF i > Len(s) THEN <<>>
  ELSE LET k == spaceRunEnd(s, i + 2)
           hit == /\ s[i] = cmd
                  /\ i < Len(s) /\ s[i + 1] = "{"
                  /\ k <= Len(s) /\ s[k] = "}"
       IN  IF hit
             THEN dropEmptyFrom(s, cmd, k + 1)
             ELSE <<s[i]>> \o dropEmptyFrom(s, cmd, i + 1)

\* fixTitlesecCommands changes only \titleformat and \titlespacing
\* invocations; the alphabet has no token for them.
fixCommonCommandErrors(latex) ==
  dropEmptyFrom(dropEmptyFrom(stripBreakBeforeCommand(undoubleFrom(latex, 1)), "TB", 1), "TI", 1)

\* end of the run of tokens other than stop that starts at position i
RECURSIVE runEnd(_, _, _)
runEnd(s, stop, i) ==
  IF i <= Len(s) /\ s[i] # stop THEN runEnd(s, stop, i + 1) ELSE i

\* bold markdown: two asterisks, one or more characters that are not an
\* asterisk, two asterisks; rewritten as \textbf{...}
RECURSIVE boldFrom(_, _)
boldFrom(s, i) ==
  IF i > Len(s) THEN <<>>
  ELSE LET k == runEnd(s, "*", i + 2)
           hit == /\ s[i] = "*"
                  /\ i < Len(s) /\ s[i + 1] = "*"
                  /\ k > i + 2
                  /\ k < Len(s) /\ s[k] = "*" /\ s[k + 1] = "*"
       IN  IF hit
             THEN <<"TB", "{">> \o SubSeq(s, i + 2, k - 1) \o <<"}">> \o boldFrom(s, k + 2)
             ELSE <<s[i]>> \o boldFrom(s, i + 1)

\* italic markdown: one asterisk not next to another asterisk on either
\* outer side, around one or more characters that are not an asterisk
RECURSIVE italicFrom(_, _)
italicFrom(s, i) ==
  IF i > Len(s) THEN <<>>
  ELSE LET k == runEnd(s, "*", i + 1)
           hit == /\ s[i] = "*"
                  /\ ~(i > 1 /\ s[i - 1] = "*")
                  /\ k > i + 1
                  /\ k <= Len(s) /\ s[k] = "*"
                  /\ ~(k < Len(s) /\ s[k + 1] = "*")
       IN  IF hit
             THEN <<"TI", "{">> \o SubSeq(s, i + 1, k - 1) \o <<"}">> \o italicFrom(s, k + 1)
             ELSE <<s[i]>> \o italicFrom(s, i + 1)

\* inline code markdown: a backtick, one or more characters that are not a
\* backtick, a backtick; rewritten as \texttt{...}
RECURSIVE codeFrom(_, _)
codeFrom(s, i) ==
  IF i > Len(s) THEN <<>>
  ELSE LET k == runEnd(s, "BT", i + 1)
           hit == /\ s[i] = "BT"
                  /\ k > i + 1
                  /\ k <= Len(s) /\ s[k] = "BT"
       IN  IF hit
             THEN <<"TT", "{">> \o SubSeq(s, i + 1, k - 1) \o <<"}">> \o codeFrom(s, k + 1)
             ELSE <<s[i]>> \o codeFrom(s, i + 1)

removeMarkdownArtifacts(latex) == codeFrom(italicFrom(boldFrom(latex, 1), 1), 1)

sanitizeLatex(latex) ==
  IF latex = Null \/ latex = <<>>
    THEN latex
    ELSE removeMarkdownArtifacts(
           fixCommonCommandErrors(
             fixUnbalancedBraces(
               fixUnescapedSpecialChars(latex))))

(***************************************************************************)
(* attemptLatexFix.  An error log is modelled by what the function tests:  *)
(* whether it is empty, which of the known messages it contains (pats),    *)
(* and the command name captured after 'Undefined control sequence'        *)
(* (ucsCmd, "" when the file-line form of that message is absent), and the *)
(* line number of its first main.tex:N: location (errorLine, 0 when it has *)
(* none).  The logs carry none of the titlesec messages matched by the     *)
(* 'Runaway argument' family, whose commands have no token.                *)
(***************************************************************************)
MissingBrace == "Missing { inserted"
ExtraBrace == "Extra }"
ForgottenDollar == "forgotten $"
MissingDollar == "Missing $ inserted"
UndefinedCS == "Undefined control sequence"
ParagraphEnded == "Paragraph ended before"
TitlesecMark == "ttl@"

LogAt(pats, cmd, line) == [empty |-> FALSE, pats |-> pats, ucsCmd |-> cmd, errorLine |-> line]
EmptyLog == [empty |-> TRUE, pats |-> {}, ucsCmd |-> "", errorLine |-> 0]
PlainLog == LogAt({}, "", 0)
LogOf(pats, cmd) == LogAt(pats, cmd, 0)

\* latex.split('\n')
RECURSIVE splitLines(_)
splitLines(s) ==
  IF ~includes(s, "NL") THEN <<s>>
  ELSE LET k == CHOOSE i \in 1..Len(s) : s[i] = "NL" /\ \A j \in 1..(i - 1) : s[j] # "NL"
       IN  <<SubSeq(s, 1, k - 1)>> \o splitLines(SubSeq(s, k + 1, Len(s)))

\* lines.join('\n')
RECURSIVE joinLines(_)
joinLines(lines) ==
  IF Len(lines) <= 1 THEN (IF lines = <<>> THEN <<>> ELSE lines[1])
  ELSE lines[1] \o <<"NL">> \o joinLines(Tail(lines))

\* line.includes('{') and line.includes('}')
hasLeftBrace(line) == \E k \in 1..Len(line) : line[k] \in {"{", "BD", "ED", "BDo", "EDo"}
hasRightBrace(line) == \E k \in 1..Len(line) : holdsRightBrace(line[k])

\* the loop of the 'Missing { inserted' family over the lines with 0-based
\* index i, Math.max(0, errorLine - 3) <= i < errorLine: a line that ends
\* with \\ after trimEnd loses it and what follows it; removed counts the
\* fixes pushed
RECURSIVE dropTrailingBreaks(_, _, _, _)
dropTrailingBreaks(lines, i, errorLine, removed) ==
  IF i < 0 THEN dropTrailingBreaks(lines, 0, errorLine, removed)
  ELSE IF i >= errorLine THEN [lines |-> lines, removed |-> removed]
  ELSE LET t == trimEnd(lines[i + 1])
           hit == Len(t) >= 2 /\ t[Len(t)] = "BS" /\ t[Len(t) - 1] = "BS"
       IN  IF hit
             THEN dropTrailingBreaks([lines EXCEPT ![i + 1] = SubSeq(t, 1, Len(t) - 2)],
                                     i + 1, errorLine, removed + 1)
             ELSE dropTrailingBreaks(lines, i + 1, errorLine, removed)

\* if (lines[i] && lines[i].trim() === '' && i > 0 && i < lines.length - 1):
\* the empty string is falsy, so the line holds at least one blank
isRemovableBlank(line) == line # <<>> /\ trim(line) = <<>>

\* the loop of the 'Paragraph ended before' family over the lines with
\* 0-based index i, Math.max(0, errorLine - 5) <= i <
\* Math.min(lines.length, errorLine + 2); after a splice the same index is
\* looked at again
RECURSIVE removeBlankNear(_, _, _, _)
removeBlankNear(lines, i, errorLine, removed) ==
  IF i < 0 THEN removeBlankNear(lines, 0, errorLine, removed)
  ELSE IF i >= Len(lines) \/ i >= errorLine + 2 THEN [lines |-> lines, removed |-> removed]
  ELSE LET hit == /\ isRemovableBlank(lines[i + 1])
                  /\ i > 0
                  /\ i < Len(lines) - 1
                  /\ \/ hasLeftBrace(lines[i])
                     \/ hasRightBrace(lines[i + 2])
                     \/ hasLeftBrace(lines[i + 2])
       IN  IF hit
             THEN removeBlankNear(SubSeq(lines, 1, i) \o SubSeq(lines, i + 2, Len(lines)),
                                  i, errorLine, removed + 1)
             ELSE removeBlankNear(lines, i + 1, errorLine, removed)

\* new RegExp('\\' + badCmd + '\{([^}]*)\}', 'g') -> '$1', for badCmd = textsc
RECURSIVE unwrapScFrom(_, _)
unwrapScFrom(s, i) ==
  IF i > Len(s) THEN <<>>
  ELSE LET opens == s[i] = "SC" /\ i < Len(s) /\ s[i + 1] = "{"
           closes == opens /\ \E k \in (i + 2)..Len(s) : holdsRightBrace(s[k])
       IN  IF closes
             THEN LET k == CHOOSE k \in (i + 2)..Len(s) :
                             /\ holdsRightBrace(s[k])
                             /\ \A j \in (i + 2)..(k - 1) : ~holdsRightBrace(s[j])
                      rest == IF s[k] = "BD" THEN <<"BDo">>
                              ELSE IF s[k] = "ED" THEN <<"EDo">> ELSE <<>>
                  IN  SubSeq(s, i + 2, k - 1) \o rest \o unwrapScFrom(s, k + 1)
             ELSE <<s[i]>> \o unwrapScFrom(s, i + 1)

\* the alphabet has a token for \textsc only
unwrapCommand(latex, badCmd) ==
  IF badCmd = "textsc" THEN unwrapScFrom(latex, 1) ELSE latex

\* /(?<!\\)_(?![{])/g -> '\\_'
RECURSIVE escapeUnderscoreFrom(_, _)
escapeUnderscoreFrom(s, i) ==
  IF i > Len(s) THEN <<>>
  ELSE IF /\ s[i] = "_"
          /\ ~(i > 1 /\ s[i - 1] = "BS")
          /\ ~(i < Len(s) /\ s[i + 1] = "{")
       THEN <<"BS", "_">> \o escapeUnderscoreFrom(s, i + 1)
       ELSE <<s[i]>> \o escapeUnderscoreFrom(s, i + 1)

KnownBadCmds == {"textsc", "MakeUppercase", "MakeLowercase"}

blankLineNotesDropped(removed) == <<>>

\* fixes.push(`Removed blank line near error at line ${errorLine}`) per splice
blankLineNotes(removed) == repeat("Removed blank line near error", removed)

attemptLatexFix(latex, errorLog) ==
  IF errorLog.empty
    THEN [fixed |-> FALSE, latex |-> latex, description |-> <<"No error log available">>]
    ELSE
      LET Fixed(doc, notes) == [latex |-> doc, fixes |-> notes]
          \* 'Missing { inserted': the lines before the reported one, then the
          \* global clean-up of \\ before \begin
          missingBrace(st) ==
            IF MissingBrace \notin errorLog.pats THEN st
            ELSE
              LET lines0 == splitLines(st.latex)
                  located == errorLog.errorLine > 0 /\ errorLog.errorLine <= Len(lines0)
                  d0 == IF located
                          THEN dropTrailingBreaks(lines0, errorLog.errorLine - 3,
                                                  errorLog.errorLine, 0)
                          ELSE [lines |-> lines0, removed |-> 0]
                  l0 == IF located THEN joinLines(d0.lines) ELSE st.latex
                  l1 == stripBreakBeforeCommand(l0)
              IN  Fixed(l1, st.fixes \o repeat("Removed trailing line break", d0.removed)
                                     \o IF l1 # l0
                                          THEN <<"Removed line break before commands">>
                                          ELSE <<>>)
          \* 'Paragraph ended before' without a titlesec marker, with a location
          paragraphEnded(st) ==
            IF /\ ParagraphEnded \in errorLog.pats
               /\ TitlesecMark \notin errorLog.pats
               /\ errorLog.errorLine > 0
              THEN LET dp == removeBlankNear(splitLines(st.latex), errorLog.errorLine - 5,
                                             errorLog.errorLine, 0)
                   IN  Fixed(joinLines(dp.lines), st.fixes \o blankLineNotes(dp.removed))
              ELSE st
          \* 'Undefined control sequence' with a known formatting command
          undefinedCommand(st) ==
            IF UndefinedCS \in errorLog.pats /\ errorLog.ucsCmd \in KnownBadCmds
              THEN Fixed(unwrapCommand(st.latex, errorLog.ucsCmd),
                         Append(st.fixes, "Replaced undefined command with plain text"))
              ELSE st
          \* 'Extra }' or 'forgotten $'
          extraBrace(st) ==
            IF ExtraBrace \in errorLog.pats \/ ForgottenDollar \in errorLog.pats
              THEN LET l3 == fixUnbalancedBraces(st.latex)
                   IN  Fixed(l3, IF l3 # st.latex
                                   THEN Append(st.fixes, "Rebalanced braces") ELSE st.fixes)
              ELSE st
          \* 'Missing $ inserted'
          missingDollar(st) ==
            IF MissingDollar \in errorLog.pats
              THEN LET l4 == escapeUnderscoreFrom(st.latex, 1)
                   IN  Fixed(l4, IF l4 # st.latex
                                   THEN Append(st.fixes, "Escaped unescaped underscores in text")
                                   ELSE st.fixes)
              ELSE st
          report(st) ==
            IF Len(st.fixes) > 0
              THEN [fixed |-> TRUE, latex |-> st.latex, description |-> st.fixes]
              ELSE [fixed |-> FALSE, latex |-> st.latex,
                    description |-> <<"No auto-fix available for this error">>]
      IN  \* the families in the order of the source, each on the result of
          \* the one before
          CHOOSE r \in
            {report(s5) : s5 \in
              {missingDollar(s4) : s4 \in
                {extraBrace(s3) : s3 \in
                  {undefinedCommand(s2) : s2 \in
                    {paragraphEnded(s1) : s1 \in
                      {missingBrace(Fixed(latex, <<>>))}}}}}} : TRUE

(***************************************************************************)
(* Bounds and inputs of the request pipeline                               *)
(***************************************************************************)
MaxBody == 2
MaxPages == 3

REMOTE_MAX_CHARS == 6000
DefaultMaxRetries == 2
maxAttempts == 2
PageBudget == 2

BodyTokens == {"#", "}", "_", "T"}

Bodies == UNION {[1..n -> BodyTokens] : n \in 0..MaxBody}

Wrap(body) == <<"DC", "BD">> \o body \o <<"ED">>

Fence == <<"BT", "BT", "BT">>

\* what the generator may answer: nothing, a complete document, a document
\* inside a tagged code fence after some chatter, a document that lacks
\* \end{document}, and text that is no document
Responses ==
  {Null, <<"x">>, <<"DC", "BD", "x">>,
   <<"x", "NL">> \o Fence \o <<"latex", "NL">> \o Wrap(<<"#">>) \o <<"NL">> \o Fence}
  \cup {Wrap(b) : b \in Bodies}

\* what the compression collaborator may answer
RefineResponses ==
  {Null, <<"x">>, <<"BD", "x">>, Wrap(<<"x">>), Wrap(<<"#", "x">>)}

\* diagnostics a failed compilation may carry
Logs ==
  {PlainLog,
   LogOf({MissingDollar}, ""),
   LogOf({ExtraBrace, ForgottenDollar}, ""),
   LogOf({UndefinedCS}, "MakeUppercase"),
   LogOf({UndefinedCS}, "parbox")}

RemoteStatuses == {200, 413, 414, 500}

LocalOutcomes == {"ok", "write_failed", "engine_failed", "enoent", "timeout", "read_failed"}

\* -1 stands for bytes that pdf-lib cannot load
PageCounts == (0..MaxPages) \cup {-1}

NoPdf == [doc |-> Null, pages |-> -1, by |-> "none"]
NoErr == [kind |-> "none", log |-> EmptyLog]
NoFix == [fixed |-> FALSE, latex |-> Null, description |-> <<>>]
NoResult == [ok |-> FALSE, pdf |-> NoPdf, err |-> NoErr]
NoResponse == [status |-> 0, type |-> "none", pdf |-> NoPdf, latex |-> Null]

VARIABLES
  pc,            \* position of the request task
  content,       \* text of the generator response
  preferLocal,   \* LATEX_COMPILER = local
  latex,         \* router.post: const latex
  gLatex,        \* compileWithTwoPageGuard: let latex
  gAttempt,      \* compileWithTwoPageGuard: attempt
  gPages,        \* page counts measured by the guard, in order
  rLatex,        \* compileLatexWithRetry: let latex
  rAttempt,      \* compileLatexWithRetry: attempt
  rCompiles,     \* adapter calls made by the current retry call
  fixesApplied,  \* compileLatexWithRetry: fixesApplied
  fix,           \* compileLatexWithRetry: const fix
  src,           \* compileLatexToPDF: latexSource
  remoteContacted, \* the current adapter call sent a request to the remote backend
  remoteStatus,  \* status of the remote response, 0 when there is none
  localRuns,     \* documents handed to the local engine by the current adapter call
  tmpDirs,       \* temporary directories that exist
  result,        \* outcome of the current adapter call
  pdfBuffer,     \* PDF held by the guard / the route
  err,           \* error thrown to the route
  lastDoc,       \* the latest version of the document the pipeline reached
  response,      \* HTTP response
  progress,      \* stages passed to sendProgress, in order
  calls,         \* number of invocations of each collaborator
  fn,            \* the function applied by a function-level behaviour ("none" in a request)
  arg,           \* its argument
  out,           \* its result
  out2,          \* the result of applying it to its own result
  reqs,          \* the requests being served by one server, by request id
  solo,          \* each of them served alone, with the same answers, by a server of its own
  stageAverages, \* const stageAverages
  sessionStats,  \* const sessionStats
  resumeCache,   \* const resumeCache: key -> { pdfBuffer, timestamp }
  lastAttemptFile, \* contents of output/last-latex-attempt.tex
  now,           \* Date.now()
  progressClients, \* const progressClients, for one request id: the registered connection
  progressLast,  \* const progressLast, for that id: the stage of the last event
  clients,       \* the connections made to GET /progress/:id
  task,          \* the request of that id
  quiet,         \* the same request when no client ever follows its progress
  fileIdCache,   \* const fileIdCache: hash -> file_id
  uploaders,     \* the calls of getOrUploadResumeFile
  filesApi       \* the files the Files API holds, in upload order

vars == <<pc, content, preferLocal, latex, gLatex, gAttempt, gPages, rLatex, rAttempt,
          rCompiles, fixesApplied, fix, src, remoteContacted, remoteStatus, localRuns,
          tmpDirs, result,
          pdfBuffer, err, lastDoc, response, progress, calls,
          fn, arg, out, out2,
          reqs, solo, stageAverages, sessionStats, resumeCache, lastAttemptFile, now,
          progressClients, progressLast, clients, task, quiet,
          fileIdCache, uploaders, filesApi>>

routeVars == <<content, preferLocal, latex, response>>
guardVars == <<gLatex, gAttempt, gPages, pdfBuffer>>
retryVars == <<rLatex, rAttempt, rCompiles, fixesApplied, fix>>
adapterVars == <<src, remoteContacted, remoteStatus, localRuns, tmpDirs, result>>
fnVars == <<fn, arg, out, out2>>
streamVars == <<progressClients, progressLast, clients, task, quiet>>
filesVars == <<fileIdCache, uploaders, filesApi>>
serverVars == <<reqs, solo, stageAverages, sessionStats, resumeCache, lastAttemptFile, now,
                streamVars, filesVars>>

\* a request applies no function in isolation
FnIdle == fn = "none" /\ arg = Null /\ out = Null /\ out2 = Null

Bump(c, name) == [c EXCEPT ![name] = @ + 1]

(***************************************************************************)
(* Module-level state of resume.js: cache, stage averages, session stats   *)
(***************************************************************************)
CACHE_TTL_MS == 3600000
CACHE_MAX_ENTRIES == 100

Entry(pdf, t) == [pdfBuffer |-> pdf, timestamp |-> t]

\* new Map()
EmptyCache == [k \in {} |-> Entry(NoPdf, 0)]

\* now - v.timestamp > CACHE_TTL_MS
isExpired(entry, t) == t - entry.timestamp > CACHE_TTL_MS

\* resumeCache.delete(k) for every k of gone
deleteKeys(cache, gone) == [k \in DOMAIN cache \ gone |-> cache[k]]

\* getCachedResume: the PDF found (NoPdf for null) and the cache it leaves
getCachedResume(cache, key, t) ==
  IF key \notin DOMAIN cache THEN [pdf |-> NoPdf, cache |-> cache]
  ELSE IF isExpired(cache[key], t)
    THEN [pdf |-> NoPdf, cache |-> deleteKeys(cache, {key})]
    ELSE [pdf |-> cache[key].pdfBuffer, cache |-> cache]

\* cacheResume: set, then the sweep of expired entries once the size is
\* above CACHE_MAX_ENTRIES
cacheResume(cache, key, pdf, t) ==
  LET set == [k \in DOMAIN cache \cup {key} |->
                IF k = key THEN Entry(pdf, t) ELSE cache[k]]
  IN  IF Cardinality(DOMAIN set) > CACHE_MAX_ENTRIES
        THEN deleteKeys(set, {k \in DOMAIN set : isExpired(set[k], t)})
        ELSE set

InitialAverages == [llm |-> 60, refine |-> 20, compile |-> 8]
InitialStats == [totalResumes |-> 0, cacheHits |-> 0, refinements |-> 0]

\* updateAverage: Math.round(prev * 0.7 + durationSeconds * 0.3); a duration
\* of 0 is ignored, an average of 0 is replaced by the duration
updateAverage(avg, stage, durationSeconds) ==
  IF durationSeconds <= 0 THEN avg
  ELSE LET prev == IF avg[stage] = 0 THEN durationSeconds ELSE avg[stage]
       IN  [avg EXCEPT ![stage] = (7 * prev + 3 * durationSeconds + 5) \div 10]

\* estimateRemaining: the sum of the averages of the stages still to run
RECURSIVE estimateRemaining(_, _)
estimateRemaining(avg, stages) ==
  IF stages = <<>> THEN 0
  ELSE avg[Head(stages)] + estimateRemaining(avg, Tail(stages))

\* the module-level state of resume.js after the server has started
MaxConns == 3
MaxCallers == 3

Conns == 1..MaxConns
Callers == 1..MaxCallers

\* progressClients.get(id) is undefined
NoClient == 0

NoConn == [state |-> "none", since |-> 0, until |-> 0, replayed |-> "none", written |-> <<>>]
NoTask == [pc |-> "none", events |-> <<>>, response |-> "none"]
NoCall == [pc |-> "idle", content |-> <<>>, fileId |-> 0]

\* new Map() for progressClients, progressLast, fileIdCache; no connection,
\* no request, no call yet
StreamIdle ==
  /\ progressClients = NoClient
  /\ progressLast = "none"
  /\ clients = [c \in Conns |-> NoConn]
  /\ task = NoTask
  /\ quiet = NoTask

FilesIdle ==
  /\ fileIdCache = <<>>
  /\ uploaders = [c \in Callers |-> NoCall]
  /\ filesApi = <<>>

ServerStarted ==
  /\ StreamIdle
  /\ FilesIdle
  /\ stageAverages = InitialAverages
  /\ sessionStats = InitialStats
  /\ resumeCache = EmptyCache
  /\ lastAttemptFile = Null
  /\ now = 0

\* a single request is followed through its pipeline: no table of requests
ServerIdle == reqs = <<>> /\ solo = <<>> /\ ServerStarted

\* no request state: nothing compiled, fixed, measured or answered yet
Fresh ==
  /\ latex = Null
  /\ gLatex = Null
  /\ gAttempt = 0
  /\ gPages = <<>>
  /\ rLatex = Null
  /\ rAttempt = 0
  /\ rCompiles = 0
  /\ fixesApplied = <<>>
  /\ fix = NoFix
  /\ src = Null
  /\ remoteContacted = FALSE
  /\ remoteStatus = 0
  /\ localRuns = <<>>
  /\ tmpDirs = {}
  /\ result = NoResult
  /\ pdfBuffer = NoPdf
  /\ err = NoErr
  /\ lastDoc = Null
  /\ response = NoResponse
  /\ progress = <<>>
  /\ calls = [sanitize |-> 0, adapter |-> 0, refine |-> 0]

Init ==
  /\ pc = "parse"
  /\ content \in Responses
  /\ preferLocal \in BOOLEAN
  /\ Fresh
  /\ FnIdle
  /\ ServerIdle

Pdf(doc, pages, by) == [doc |-> doc, pages |-> pages, by |-> by]
Failure(kind, log) == [ok |-> FALSE, pdf |-> NoPdf, err |-> [kind |-> kind, log |-> log]]
Thrown(kind) == [kind |-> kind, log |-> PlainLog]

(***************************************************************************)
(* router.post('/generate-resume'), from the generator response on         *)
(***************************************************************************)
ParseResponse ==
  /\ pc = "parse"
  /\ LET doc == extractLatexFromResponse(content) IN
       /\ latex' = doc
       /\ IF doc = Null
            THEN /\ progress' = Append(progress, "error")
                 /\ response' = [status |-> 500, type |-> "invalid_latex",
                                 pdf |-> NoPdf, latex |-> Null]
                 /\ pc' = "done"
                 /\ UNCHANGED <<gLatex, gAttempt, lastDoc>>
            ELSE /\ progress' = Append(progress, "compile_start")
                 /\ gLatex' = doc
                 /\ gAttempt' = 1
                 /\ lastDoc' = doc
                 /\ pc' = "guard_pass"
                 /\ UNCHANGED response
  /\ UNCHANGED <<content, preferLocal, gPages, pdfBuffer, err, calls>>
  /\ UNCHANGED <<retryVars, adapterVars>>
  /\ UNCHANGED fnVars
  /\ UNCHANGED serverVars

(***************************************************************************)
(* compileWithTwoPageGuard                                                 *)
(***************************************************************************)
GuardPass ==
  /\ pc = "guard_pass"
  /\ gAttempt <= maxAttempts
  /\ progress' = Append(progress, "compile_pass")
  /\ pc' = "retry_enter"
  /\ UNCHANGED <<routeVars, guardVars, retryVars, adapterVars, err, lastDoc, calls>>
  /\ UNCHANGED fnVars
  /\ UNCHANGED serverVars

exceedsBudgetLoose(pageCount) == pageCount > PageBudget + 1

exceedsBudget(pageCount) == pageCount > PageBudget

isLastAttemptLate(attempt) == attempt = maxAttempts + 1

isLastAttempt(attempt) == attempt = maxAttempts

GuardMeasure ==
  /\ pc = "guard_measure"
  /\ gLatex' = rLatex
  /\ IF pdfBuffer.pages = -1
       THEN /\ err' = Thrown("pdf_load")
            /\ pc' = "route_catch"
            /\ UNCHANGED <<gPages, progress, calls>>
       ELSE /\ gPages' = Append(gPages, pdfBuffer.pages)
            /\ IF ~exceedsBudget(pdfBuffer.pages)
                 THEN /\ pc' = "route_ok"
                      /\ UNCHANGED <<err, progress, calls>>
                 ELSE IF isLastAttempt(gAttempt)
                   THEN /\ err' = Thrown("page_budget")
                        /\ pc' = "route_catch"
                        /\ UNCHANGED <<progress, calls>>
                   ELSE /\ progress' = Append(progress, "refine_start")
                        /\ calls' = Bump(calls, "refine")
                        /\ pc' = "refine_wait"
                        /\ UNCHANGED err
  /\ UNCHANGED <<routeVars, gAttempt, pdfBuffer, retryVars, adapterVars, lastDoc>>
  /\ UNCHANGED fnVars
  /\ UNCHANGED serverVars

\* refineLatexToTwoPages: extractLatexFromResponse(content) || content?.trim()
refinedFrom(c) ==
  LET e == extractLatexFromResponse(c)
  IN  IF e # Null THEN e ELSE IF c = Null THEN Null ELSE trim(c)

RefineRespond ==
  /\ pc = "refine_wait"
  /\ \E httpOk \in BOOLEAN, c \in RefineResponses :
       LET refined == refinedFrom(c) IN
         IF ~httpOk \/ refined = Null \/ refined = <<>> \/ ~includes(refined, "BD")
           THEN /\ err' = Thrown("refine")
                /\ pc' = "route_catch"
                /\ UNCHANGED <<gLatex, gAttempt, lastDoc, progress>>
           ELSE /\ gLatex' = refined
                /\ lastDoc' = refined
                /\ progress' = Append(progress, "refine_done")
                /\ gAttempt' = gAttempt + 1
                /\ pc' = "guard_pass"
                /\ UNCHANGED err
  /\ UNCHANGED <<routeVars, gPages, pdfBuffer, retryVars, adapterVars, calls>>
  /\ UNCHANGED fnVars
  /\ UNCHANGED serverVars

(***************************************************************************)
(* compileLatexWithRetry                                                   *)
(***************************************************************************)
sanitizedSourceRaw(latexSource) == latexSource

\* let latex = sanitizeLatex(latexSource)
sanitizedSource(latexSource) == sanitizeLatex(latexSource)

RetryEnter ==
  /\ pc = "retry_enter"
  /\ LET sanitized == sanitizedSource(gLatex) IN
       /\ rLatex' = sanitized
       /\ fixesApplied' = IF sanitized # gLatex
                            THEN <<"Pre-compilation sanitization">> ELSE <<>>
       /\ lastDoc' = sanitized
  /\ rAttempt' = 1
  /\ rCompiles' = 0
  /\ fix' = NoFix
  /\ calls' = Bump(calls, "sanitize")
  /\ pc' = "adapter"
  /\ UNCHANGED <<routeVars, guardVars, adapterVars, err, progress>>
  /\ UNCHANGED fnVars
  /\ UNCHANGED serverVars

retriesExhaustedLate(attempt) == attempt > DefaultMaxRetries + 1

retriesExhausted(attempt) == attempt > DefaultMaxRetries

noFixAvailableIgnored(f) == FALSE

noFixAvailable(f) == ~f.fixed

recordFixDropped(fixes, f) == fixes

recordFix(fixes, f) == Append(fixes, f.description)

RetryHandle ==
  /\ pc = "retry_handle"
  /\ IF result.ok
       THEN /\ pdfBuffer' = result.pdf
            /\ pc' = "guard_measure"
            /\ UNCHANGED <<rLatex, rAttempt, fixesApplied, fix, err, lastDoc>>
       ELSE IF retriesExhausted(rAttempt)
         THEN /\ err' = result.err
              /\ pc' = "route_catch"
              /\ UNCHANGED <<rLatex, rAttempt, fixesApplied, fix, pdfBuffer, lastDoc>>
         ELSE LET f == attemptLatexFix(rLatex, result.err.log) IN
              /\ fix' = f
              /\ IF noFixAvailable(f)
                   THEN /\ err' = result.err
                        /\ pc' = "route_catch"
                        /\ UNCHANGED <<rLatex, rAttempt, fixesApplied, lastDoc>>
                   ELSE /\ rLatex' = f.latex
                        /\ fixesApplied' = recordFix(fixesApplied, f)
                        /\ rAttempt' = rAttempt + 1
                        /\ lastDoc' = f.latex
                        /\ pc' = "adapter"
                        /\ UNCHANGED err
              /\ UNCHANGED pdfBuffer
  /\ UNCHANGED <<routeVars, gLatex, gAttempt, gPages, rCompiles, adapterVars, progress, calls>>
  /\ UNCHANGED fnVars
  /\ UNCHANGED serverVars

(***************************************************************************)
(* compileLatexToPDF and compileLatexLocally                               *)
(***************************************************************************)
shouldUseRemoteStrict(latexSource) ==
  ~preferLocal /\ docLength(latexSource) < REMOTE_MAX_CHARS

shouldUseRemote(latexSource) ==
  ~preferLocal /\ docLength(latexSource) <= REMOTE_MAX_CHARS

\* compileLatexToPDF up to the first await: the remote request is sent, or
\* compileLatexLocally is entered
CompileStart ==
  /\ pc = "adapter"
  /\ src' = rLatex
  /\ remoteStatus' = 0
  /\ localRuns' = <<>>
  /\ result' = NoResult
  /\ calls' = Bump(calls, "adapter")
  /\ rCompiles' = rCompiles + 1
  /\ remoteContacted' = shouldUseRemote(rLatex)
  /\ pc' = IF shouldUseRemote(rLatex) THEN "remote_wait" ELSE "local_start"
  /\ UNCHANGED <<routeVars, guardVars, rLatex, rAttempt, fixesApplied, fix, tmpDirs,
                 err, lastDoc, progress>>
  /\ UNCHANGED fnVars
  /\ UNCHANGED serverVars

fallsBackToLocalWide(status) == status \in {413, 414}

fallsBackToLocal(status) == status = 414

\* the remote backend answers
RemoteRespond ==
  /\ pc = "remote_wait"
  /\ \E status \in RemoteStatuses, pages \in PageCounts, log \in Logs :
       /\ remoteStatus' = status
       /\ IF status = 200
            THEN /\ result' = [ok |-> TRUE, pdf |-> Pdf(src, pages, "remote"), err |-> NoErr]
                 /\ pc' = "retry_handle"
            ELSE IF ~fallsBackToLocal(status)
              THEN /\ result' = Failure("remote", log)
                   /\ pc' = "retry_handle"
              ELSE /\ pc' = "local_start"
                   /\ UNCHANGED result
  /\ UNCHANGED <<routeVars, guardVars, retryVars, src, remoteContacted, localRuns, tmpDirs,
                 err, lastDoc, progress, calls>>
  /\ UNCHANGED fnVars
  /\ UNCHANGED serverVars

\* the request to the remote backend fails without a response
RemoteUnreachable ==
  /\ pc = "remote_wait"
  /\ result' = Failure("network", PlainLog)
  /\ pc' = "retry_handle"
  /\ UNCHANGED <<routeVars, guardVars, retryVars, src, remoteContacted, remoteStatus,
                 localRuns, tmpDirs, err, lastDoc, progress, calls>>
  /\ UNCHANGED fnVars
  /\ UNCHANGED serverVars

\* compileLatexLocally up to fs.mkdtemp; the directory gets a fresh name
\* (here the number of the adapter call that made it)
LocalStart ==
  /\ pc = "local_start"
  /\ localRuns' = Append(localRuns, src)
  /\ \E made \in BOOLEAN :
       IF made
         THEN /\ tmpDirs' = tmpDirs \cup {calls.adapter}
              /\ pc' = "local_run"
              /\ UNCHANGED result
         ELSE /\ result' = Failure("local", PlainLog)
              /\ pc' = "retry_handle"
              /\ UNCHANGED tmpDirs
  /\ UNCHANGED <<routeVars, guardVars, retryVars, src, remoteContacted, remoteStatus,
                 err, lastDoc, progress, calls>>
  /\ UNCHANGED fnVars
  /\ UNCHANGED serverVars

\* the finally block runs on every exit path of the try block
cleanupOnSuccessOnly(outcome) == outcome = "ok"

cleanupRuns(outcome) == outcome \in LocalOutcomes

\* fs.rm(tmpDir, { recursive: true, force: true })
removeTmpDir(dirs, dir) == dirs \ {dir}

\* compileLatexLocally from the try block to the end
LocalFinish ==
  /\ pc = "local_run"
  /\ \E outcome \in LocalOutcomes, pages \in PageCounts, log \in Logs :
       /\ result' = IF outcome = "ok"
                      THEN [ok |-> TRUE, pdf |-> Pdf(src, pages, "local"), err |-> NoErr]
                    ELSE IF outcome = "engine_failed" THEN Failure("local", log)
                    ELSE Failure(outcome, PlainLog)
       /\ tmpDirs' = IF cleanupRuns(outcome)
                       THEN removeTmpDir(tmpDirs, calls.adapter) ELSE tmpDirs
  /\ pc' = "retry_handle"
  /\ UNCHANGED <<routeVars, guardVars, retryVars, src, remoteContacted, remoteStatus, localRuns,
                 err, lastDoc, progress, calls>>
  /\ UNCHANGED fnVars
  /\ UNCHANGED serverVars

(***************************************************************************)
(* router.post('/generate-resume'): the end of the request                 *)
(***************************************************************************)
RouteSuccess ==
  /\ pc = "route_ok"
  /\ \E saved \in BOOLEAN :
       IF saved
         THEN /\ progress' = Append(progress, "done")
              /\ response' = [status |-> 200, type |-> "pdf",
                              pdf |-> pdfBuffer, latex |-> Null]
              /\ pc' = "done"
              /\ UNCHANGED err
         ELSE /\ err' = Thrown("save")
              /\ pc' = "route_catch"
              /\ UNCHANGED <<progress, response>>
  /\ UNCHANGED <<content, preferLocal, latex, guardVars, retryVars, adapterVars,
                 lastDoc, calls>>
  /\ UNCHANGED fnVars
  /\ UNCHANGED serverVars

\* catch (compilationError)
RouteCompileFailed ==
  /\ pc = "route_catch"
  /\ progress' = Append(progress, "error")
  /\ response' = [status |-> 200, type |-> "compilation_failed",
                  pdf |-> NoPdf, latex |-> latex]
  /\ pc' = "done"
  /\ UNCHANGED <<content, preferLocal, latex, guardVars, retryVars, adapterVars,
                 err, lastDoc, calls>>
  /\ UNCHANGED fnVars
  /\ UNCHANGED serverVars

Next ==
  \/ ParseResponse
  \/ GuardPass
  \/ RetryEnter
  \/ CompileStart
  \/ RemoteRespond
  \/ RemoteUnreachable
  \/ LocalStart
  \/ LocalFinish
  \/ RetryHandle
  \/ GuardMeasure
  \/ RefineRespond
  \/ RouteSuccess
  \/ RouteCompileFailed

Spec == Init /\ [][Next]_vars

TypeOK ==
  /\ pc \in {"parse", "guard_pass", "retry_enter", "adapter", "remote_wait", "local_start",
             "local_run", "retry_handle", "guard_measure", "refine_wait", "route_ok",
             "route_catch", "done"}
  /\ gAttempt \in 0..maxAttempts
  /\ rAttempt \in 0..(DefaultMaxRetries + 1)
  /\ remoteStatus \in RemoteStatuses \cup {0}

(***************************************************************************)
(* Properties                                                              *)
(***************************************************************************)
InAdapterCall == pc \in {"remote_wait", "local_start", "local_run", "retry_handle"}

\* compileLatexWithRetry has thrown the error of its last adapter call
RetryThrew == pc = "route_catch" /\ ~result.ok /\ err = result.err

OverBudget == PageBudget + 1

\* C1: compileWithTwoPageGuard returns a success result only with a PDF
\* whose measured page count is at most 2, and a PDF sent as the response
\* has at most 2 pages; a PDF of more than 2 pages is never a success.
C1_SuccessWithinPageBudget ==
  /\ pc = "route_ok" =>
       /\ pdfBuffer.pages \in 0..PageBudget
       /\ gPages # <<>> /\ gPages[Len(gPages)] = pdfBuffer.pages
  /\ response.type = "pdf" => response.pdf.pages \in 0..PageBudget

\* a success after one compression round: 3 pages measured first, then 2
C1_Witness ==
  pc = "route_ok" /\ gPages = <<OverBudget, PageBudget>> /\ pdfBuffer.pages = PageBudget

\* C2: with every compile pass reporting 3 pages, the guard runs exactly one
\* compression round, compiles a second time and then ends with the
\* page-budget failure; no second compression round is ever started and no
\* third pass is made.
C2_OneCompressionRound ==
  /\ calls.refine <= 1
  /\ Len(gPages) <= maxAttempts
  /\ calls.sanitize <= maxAttempts
  /\ (Len(gPages) >= 1 /\ gPages[1] = OverBudget) => calls.refine = 1
  /\ gPages = <<OverBudget, OverBudget>> =>
       /\ pc \in {"route_catch", "done"}
       /\ err.kind = "page_budget"
       /\ calls.refine = 1
       /\ calls.sanitize = 2
       /\ pc = "done" => response.type = "compilation_failed"

C2_Witness ==
  /\ pc = "done"
  /\ gPages = <<OverBudget, OverBudget>>
  /\ err.kind = "page_budget"
  /\ calls.refine = 1

\* C3: one call of compileLatexWithRetry invokes the Compiler Adapter at most
\* maxRetries + 1 times, and when the last allowed attempt has failed the
\* call has thrown that compile error.
C3_AdapterCallsBounded ==
  /\ rCompiles <= DefaultMaxRetries + 1
  /\ rCompiles = rAttempt \/ (pc = "adapter" /\ rCompiles + 1 = rAttempt)
  /\ (rCompiles = DefaultMaxRetries + 1 /\ ~result.ok /\ ~InAdapterCall) =>
       /\ pc \in {"route_catch", "done"}
       /\ err = result.err

C3_Witness ==
  RetryThrew /\ rCompiles = DefaultMaxRetries + 1 /\ Len(fixesApplied) >= DefaultMaxRetries

\* C4: when attemptLatexFix reports fixed: false, compileLatexWithRetry has
\* thrown that compile error at once: the adapter is not invoked again and
\* the current document is still the one whose compilation failed, also when
\* retries remain.
C4_NoFixIsTerminal ==
  (fix # NoFix /\ ~fix.fixed) =>
    /\ pc \in {"route_catch", "done"}
    /\ ~result.ok /\ err = result.err
    /\ rLatex = src
    /\ lastDoc = src
    /\ rCompiles = rAttempt
    /\ rAttempt <= DefaultMaxRetries

C4_Witness ==
  /\ RetryThrew
  /\ fix # NoFix /\ ~fix.fixed
  /\ rAttempt = 1
  /\ rLatex = src

\* the document handed to compileLatexWithRetry was changed by the sanitizer
\* (gLatex is that document while the call runs and when it has thrown)
SanitizerChanged == sanitizeLatex(gLatex) # gLatex

KnownPattern == result.err.log.pats # {}

\* every failure the call handled was repaired (fixed: true), so that the
\* call ended by running out of retries and not for want of a fix
EveryFailureFixed == fix # NoFix /\ fix.fixed

\* C5 as stated: when every compilation fails with a diagnostic that matches
\* a known pattern and every repair applies, at most maxRetries
\* recompilations are made and fixesApplied has exactly maxRetries entries
\* at the terminal failure.
C5_Original ==
  (RetryThrew /\ KnownPattern /\ EveryFailureFixed) =>
    /\ rCompiles - 1 <= DefaultMaxRetries
    /\ Len(fixesApplied) = DefaultMaxRetries

\* C5 amended: at the terminal failure at most maxRetries recompilations
\* were made, and fixesApplied has one entry for each recompilation, plus
\* the entry 'Pre-compilation sanitization' when the sanitizer changed the
\* document.
C5_FixLogMatchesRecompiles ==
  (RetryThrew /\ KnownPattern) =>
    /\ rCompiles - 1 <= DefaultMaxRetries
    /\ Len(fixesApplied) = (rCompiles - 1) + (IF SanitizerChanged THEN 1 ELSE 0)

C5_Witness ==
  /\ RetryThrew /\ KnownPattern
  /\ rCompiles - 1 = DefaultMaxRetries
  /\ SanitizerChanged
  /\ Len(fixesApplied) = DefaultMaxRetries + 1

\* C6 as stated: the LaTeX handed back with a terminal compilation or
\* page-budget failure is the latest version the pipeline reached.
C6_Original ==
  response.type = "compilation_failed" => response.latex = lastDoc

\* C7: when the Response Parser returns None (in particular for a text
\* without one of the document markers) the request ends at once with the
\* generation-format error, and the Sanitizer, the Compiler Adapter and the
\* compression collaborator are never invoked.
NoDocumentIn(text) == text = Null \/ ~includes(text, "DC") \/ ~includes(text, "ED")

C7_FormatErrorIsImmediate ==
  (pc # "parse" /\ (latex = Null \/ NoDocumentIn(content))) =>
    /\ pc = "done"
    /\ latex = Null
    /\ response.type = "invalid_latex" /\ response.status = 500
    /\ calls.sanitize = 0 /\ calls.adapter = 0 /\ calls.refine = 0
    /\ tmpDirs = {}
    /\ progress = <<"error">>

C7_Witness ==
  /\ pc = "done"
  /\ content # Null /\ includes(content, "DC") /\ ~includes(content, "ED")
  /\ response.type = "invalid_latex"

LocalFailureKinds == {"local", "enoent", "timeout", "read_failed", "write_failed"}

\* C9: when compileLatexToPDF has ended, a remote answer 414 went with one
\* local compilation of the same document, whose outcome is the outcome of
\* the call; any other remote answer that is no success made the call fail
\* with the remote error, without a local compilation.
C9_FallbackOn414Only ==
  pc = "retry_handle" =>
    /\ remoteStatus = 414 =>
         /\ localRuns = <<src>>
         /\ result.ok => result.pdf.by = "local" /\ result.pdf.doc = src
         /\ ~result.ok => result.err.kind \in LocalFailureKinds
    /\ remoteStatus \notin {0, 200, 414} =>
         /\ ~result.ok /\ result.err.kind = "remote"
         /\ localRuns = <<>>

C9_Witness ==
  /\ pc = "retry_handle"
  /\ remoteStatus = 414
  /\ result.ok /\ result.pdf.by = "local"
  /\ localRuns = <<src>>

\* C10: an adapter call contacts the remote backend exactly when the
\* document has at most 6000 characters and local-only mode is off; in every
\* other case the document goes to the local engine and the remote backend
\* is not contacted.
C10_BackendSelection ==
  InAdapterCall =>
    /\ remoteContacted <=> (docLength(src) <= REMOTE_MAX_CHARS /\ ~preferLocal)
    /\ ~remoteContacted => remoteStatus = 0
    /\ (~remoteContacted /\ pc \in {"local_run", "retry_handle"}) => localRuns = <<src>>
    /\ (~remoteContacted /\ result.ok) => result.pdf.by = "local"

C10_Witness ==
  /\ pc = "retry_handle"
  /\ ~remoteContacted /\ ~preferLocal
  /\ docLength(src) > REMOTE_MAX_CHARS
  /\ localRuns = <<src>>

(***************************************************************************)
(* The sanitizer within a request                                          *)
(***************************************************************************)
InRetryCall == pc \in {"adapter", "remote_wait", "local_start", "local_run", "retry_handle"}

\* C11 as stated: per request the Sanitizer is applied exactly once, and
\* not again after an error-driven fix or after a compression round.
C11_Original == calls.sanitize <= 1

\* C11 amended: the Sanitizer is applied exactly once per call of
\* compileLatexWithRetry, on entry before the first compile attempt of that
\* call, and not again after an error-driven fix; the guard makes one such
\* call per compile pass, so the document of a compression round is
\* sanitized once more, and a request runs the Sanitizer at most
\* maxAttempts times.
C11_SanitizedOncePerPass ==
  /\ calls.sanitize <= maxAttempts
  /\ pc \in {"guard_pass", "retry_enter"} => calls.sanitize = gAttempt - 1
  /\ (InRetryCall \/ pc \in {"guard_measure", "refine_wait"}) => calls.sanitize = gAttempt
  /\ (InRetryCall /\ fix = NoFix) => rLatex = sanitizeLatex(gLatex)
  /\ (InRetryCall /\ fix # NoFix /\ fix.fixed) => rLatex = fix.latex

\* the second pass, after a compression round, has retried twice after fixes
C11_Witness ==
  /\ InRetryCall
  /\ gAttempt = 2 /\ calls.refine = 1
  /\ rAttempt = DefaultMaxRetries + 1
  /\ calls.sanitize = 2

(***************************************************************************)
(* Function-level behaviours: sanitizeLatex, fixUnbalancedBraces and       *)
(* extractLatexFromResponse applied to one argument, and applied again to  *)
(* the result.                                                             *)
(***************************************************************************)
MaxSanLen == 5
MaxSegs == 6

RECURSIVE flatten(_)
flatten(ss) == IF ss = <<>> THEN <<>> ELSE Head(ss) \o flatten(Tail(ss))

\* characters of a document body: braces, a backslash, a backtick, a letter
SanTokens == {"{", "}", "BS", "BT", "x"}

SanBodies == UNION {[1..n -> SanTokens] : n \in 0..MaxSanLen}

\* documents with a balanced or an open preamble, with or without the end
\* marker
SanDocs ==
  {<<"DC">> \o pre \o <<"BD">> \o b \o end :
     pre \in {<<>>, <<"{">>}, b \in SanBodies, end \in {<<"ED">>, <<>>}}

\* pieces of a generator response: a code fence, its tag, a blank, the two
\* document markers
ExtractSegs == {Fence, <<"latex">>, <<"SP">>, <<"DC">>, <<"ED">>}

ExtractTexts ==
  {Null, <<>>} \cup {flatten(ss) : ss \in UNION {[1..n -> ExtractSegs] : n \in 1..MaxSegs}}

MaxFixLen == 4

\* characters of a document handed to attemptLatexFix: braces, a blank, a
\* newline, an underscore, \textsc, a backslash
FixDocs == UNION {[1..n -> {"{", "}", "SP", "NL", "_", "SC", "BS"}] : n \in 0..MaxFixLen}

\* logs: none, one without a known message, and one per modelled family,
\* with and without a location
FixLogs ==
  {EmptyLog, PlainLog,
   LogOf({ParagraphEnded}, ""), LogAt({ParagraphEnded}, "", 1), LogAt({ParagraphEnded}, "", 2),
   LogAt({ParagraphEnded, TitlesecMark}, "", 2),
   LogAt({UndefinedCS}, "textsc", 1), LogAt({UndefinedCS}, "MakeUppercase", 1),
   LogAt({UndefinedCS}, "parbox", 1),
   LogOf({MissingBrace}, ""), LogAt({MissingBrace}, "", 2),
   LogAt({ExtraBrace, ForgottenDollar}, "", 1), LogAt({MissingDollar}, "", 1)}

MaxEscLen == 2

\* documents for the escaping pass: a preamble of several lines that may
\* hold #, $, _ and %, a body, and a tail after the end marker
EscapeDocs ==
  {<<"DC", "NL">> \o pre \o <<"BD">> \o b \o <<"ED">> \o tail :
     pre \in UNION {[1..n -> {"#", "$", "_", "%", "NL", "SP", "9", "BS"}] : n \in 0..MaxEscLen},
     b \in UNION {[1..n -> {"#", "9", "BS", "x"}] : n \in 0..MaxEscLen},
     tail \in {<<>>, <<"#">>}}

FnInit ==
  /\ pc = "fn_ready"
  /\ content = Null
  /\ preferLocal = FALSE
  /\ Fresh
  /\ ServerIdle
  /\ \/ fn = "sanitizeLatex" /\ arg \in SanDocs
     \/ fn = "fixUnbalancedBraces" /\ arg \in SanDocs
     \/ fn = "extractLatexFromResponse" /\ arg \in ExtractTexts
     \/ fn = "fixUnescapedSpecialChars" /\ arg \in EscapeDocs
     \/ fn = "attemptLatexFix" /\ arg \in [latex : FixDocs, log : FixLogs]
  /\ out = Null
  /\ out2 = Null

pipelineVars ==
  <<content, preferLocal, latex, gLatex, gAttempt, gPages, rLatex, rAttempt, rCompiles,
    fixesApplied, fix, src, remoteContacted, remoteStatus, localRuns, tmpDirs, result,
    pdfBuffer, err, lastDoc, response, progress, calls>>

ApplySanitize ==
  /\ pc = "fn_ready" /\ fn = "sanitizeLatex"
  /\ out' = sanitizeLatex(arg)
  /\ out2' = sanitizeLatex(sanitizeLatex(arg))
  /\ pc' = "fn_done"
  /\ UNCHANGED <<fn, arg, pipelineVars, serverVars>>

ApplyBalance ==
  /\ pc = "fn_ready" /\ fn = "fixUnbalancedBraces"
  /\ out' = fixUnbalancedBraces(arg)
  /\ out2' = fixUnbalancedBraces(fixUnbalancedBraces(arg))
  /\ pc' = "fn_done"
  /\ UNCHANGED <<fn, arg, pipelineVars, serverVars>>

ApplyExtract ==
  /\ pc = "fn_ready" /\ fn = "extractLatexFromResponse"
  /\ out' = extractLatexFromResponse(arg)
  /\ out2' = extractLatexFromResponse(extractLatexFromResponse(arg))
  /\ pc' = "fn_done"
  /\ UNCHANGED <<fn, arg, pipelineVars, serverVars>>

ApplyEscape ==
  /\ pc = "fn_ready" /\ fn = "fixUnescapedSpecialChars"
  /\ out' = fixUnescapedSpecialChars(arg)
  /\ out2' = fixUnescapedSpecialChars(fixUnescapedSpecialChars(arg))
  /\ pc' = "fn_done"
  /\ UNCHANGED <<fn, arg, pipelineVars, serverVars>>

\* out2 is the fix of the fixed document for the same log
ApplyFix ==
  /\ pc = "fn_ready" /\ fn = "attemptLatexFix"
  /\ out' = attemptLatexFix(arg.latex, arg.log)
  /\ out2' = attemptLatexFix(attemptLatexFix(arg.latex, arg.log).latex, arg.log)
  /\ pc' = "fn_done"
  /\ UNCHANGED <<fn, arg, pipelineVars, serverVars>>

FnNext == ApplySanitize \/ ApplyBalance \/ ApplyExtract \/ ApplyEscape \/ ApplyFix

FnSpec == FnInit /\ [][FnNext]_vars

Applied(f) == pc = "fn_done" /\ fn = f

\* C12 as stated: the Sanitizer is idempotent; sanitizing a sanitized
\* document changes nothing.
C12_Original == Applied("sanitizeLatex") => out2 = out

\* the body region: what lies between the first \begin{document} and the
\* last \end{document}
hasBody(d) ==
  /\ includes(d, "BD") /\ includes(d, "ED")
  /\ \E i \in 1..Len(d) : d[i] = "BD" /\ i < lastIndexOf(d, "ED")

bodyRegion(d) ==
  LET b == CHOOSE i \in 1..Len(d) : d[i] = "BD" /\ \A j \in 1..(i - 1) : d[j] # "BD"
  IN  SubSeq(d, b + 1, lastIndexOf(d, "ED") - 1)

\* number of { minus number of } among the characters of s that are not
\* preceded by a backslash
RECURSIVE unescapedNet(_, _)
unescapedNet(s, i) ==
  IF i > Len(s) THEN 0
  ELSE LET escaped == i > 1 /\ s[i - 1] = "BS"
           here == IF s[i] = "{" /\ ~escaped THEN 1
                   ELSE IF s[i] = "}" /\ ~escaped THEN -1
                   ELSE braceNet(s[i])
       IN  here + unescapedNet(s, i + 1)

\* C13 as stated: in every document the Sanitizer produces, the unescaped
\* braces of the body region have net depth 0.
C13_Original ==
  (Applied("sanitizeLatex") /\ hasBody(out)) => unescapedNet(bodyRegion(out), 1) = 0

\* s with the tokens ins put in before position i
insertAt(s, i, ins) == SubSeq(s, 1, i - 1) \o ins \o SubSeq(s, i, Len(s))

\* a document with a plain preamble and both markers
plainDoc(d) == Len(d) >= 3 /\ d[1] = "DC" /\ d[2] = "BD" /\ d[Len(d)] = "ED"

\* C14 as stated: brace balancing of a body with one more } than { gives
\* the input with one backslash put in front of a } of the body (length
\* plus one), no character deleted.
C14_Original ==
  (/\ Applied("fixUnbalancedBraces")
   /\ plainDoc(arg)
   /\ unescapedNet(bodyRegion(arg), 1) = -1)
  => /\ docLength(out) = docLength(arg) + 1
     /\ \E i \in 3..(Len(arg) - 1) : arg[i] = "}" /\ out = insertAt(arg, i, <<"BS">>)

blockAt(t, i) ==
  LET tagEnd == IF i + 3 <= Len(t) /\ t[i + 3] \in {"latex", "tex"} THEN i + 4 ELSE i + 3
      z == fenceFrom(t, tagEnd)
  IN  IF z = 0 THEN Null ELSE trim(SubSeq(t, tagEnd, z - 1))

holdsDocument(c) == c # Null /\ includes(c, "DC") /\ includes(c, "ED")

\* C16 as stated: when some fenced block of the response holds both
\* document markers, the result is exactly the trimmed content of such a
\* block; a response without a fence is used as trimmed full text.
C16_Original ==
  (Applied("extractLatexFromResponse") /\ arg \notin {Null, <<>>}) =>
    LET t == trim(arg) IN
      /\ (\E i \in 1..Len(t) : isFenceAt(t, i) /\ holdsDocument(blockAt(t, i))) =>
           \E i \in 1..Len(t) :
             isFenceAt(t, i) /\ holdsDocument(blockAt(t, i)) /\ out = blockAt(t, i)
      /\ (\A i \in 1..Len(t) : ~isFenceAt(t, i)) =>
           out = IF holdsDocument(t) THEN t ELSE Null

\* C16 amended: the first fenced block of the trimmed response decides.
\* When it holds both document markers the result is exactly its content,
\* trimmed, and nothing from outside the fence; when it does not, the result
\* is None even if a later block or the full text holds a document; a
\* response with no closed fence is used as trimmed full text.
C16_FirstFenceContent ==
  (Applied("extractLatexFromResponse") /\ arg \notin {Null, <<>>}) =>
    LET t == trim(arg)
        a == fenceFrom(t, 1)
        first == IF a = 0 THEN Null ELSE blockAt(t, a)
    IN  /\ (first # Null /\ holdsDocument(first)) => out = first
        /\ (first # Null /\ ~holdsDocument(first)) => out = Null
        /\ first = Null => out = IF holdsDocument(t) THEN t ELSE Null

\* a tagged fence after other text
C16_Witness ==
  /\ Applied("extractLatexFromResponse")
  /\ arg = <<"DC">> \o Fence \o <<"latex", "DC", "ED">> \o Fence
  /\ out = <<"DC", "ED">>

\* the candidate text: the content of the first fenced block when there is
\* one, the trimmed response otherwise
candidateOf(text) ==
  LET t == trim(text)
      a == fenceFrom(t, 1)
  IN  IF a # 0 /\ blockAt(t, a) # Null THEN blockAt(t, a) ELSE t

\* C17: extractLatexFromResponse returns None for empty or missing input and
\* whenever the candidate text lacks \documentclass or \end{document} (so
\* also whenever the response lacks one of them); what it returns otherwise
\* is the candidate, which holds both markers.
C17_NoneWithoutBothMarkers ==
  Applied("extractLatexFromResponse") =>
    /\ arg \in {Null, <<>>} => out = Null
    /\ arg \notin {Null, <<>>} =>
         /\ ~(includes(candidateOf(arg), "DC") /\ includes(candidateOf(arg), "ED")) => out = Null
         /\ (~includes(arg, "DC") \/ ~includes(arg, "ED")) => out = Null
         /\ out # Null =>
              /\ out = candidateOf(arg)
              /\ includes(out, "DC") /\ includes(out, "ED")
         /\ out2 = out

\* both markers stand in the response, but the end marker is outside the
\* fenced candidate
C17_Witness ==
  /\ Applied("extractLatexFromResponse")
  /\ arg = Fence \o <<"latex", "DC">> \o Fence \o <<"ED">>
  /\ out = Null

(***************************************************************************)
(* Progress events of the request                                          *)
(***************************************************************************)
\* the number of events of one stage passed to sendProgress so far
eventsOf(stage) == Cardinality({i \in DOMAIN progress : progress[i] = stage})

\* C18 as stated: every entry into the compile step, retries after a fix
\* included, has a progress event of its own, and the request ends with the
\* event of its terminal state.
C18_Original ==
  /\ eventsOf("compile_pass") >= calls.adapter
  /\ pc = "done" => progress # <<>> /\ progress[Len(progress)] \in {"done", "error"}

(***************************************************************************)
(* The result cache under any sequence of cacheResume and getCachedResume  *)
(* calls                                                                   *)
(***************************************************************************)
MaxKeys == 101

\* the instants at which the cache is used: the start of the server and a
\* moment at which whatever was stored at the start has expired
Instants == {0, CACHE_TTL_MS + 1}

\* the keys the next call may use: the oldest key and the first unused one
nextKeys(cache) ==
  {1} \cup {k \in 1..MaxKeys : k \notin DOMAIN cache /\ \A j \in 1..(k - 1) : j \in DOMAIN cache}

CacheInit ==
  /\ pc = "cache"
  /\ content = Null
  /\ preferLocal = FALSE
  /\ Fresh
  /\ FnIdle
  /\ reqs = <<>>
  /\ solo = <<>>
  /\ ServerStarted

\* a request ends with cacheResume(cacheKey, pdfBuffer)
CacheStore ==
  /\ pc = "cache"
  /\ \E key \in nextKeys(resumeCache) :
       resumeCache' = cacheResume(resumeCache, key, Pdf(Wrap(<<>>), 1, "remote"), now)
  /\ UNCHANGED <<pc, pipelineVars, fnVars, reqs, solo, stageAverages, sessionStats,
                 lastAttemptFile, now, streamVars, filesVars>>

\* a request starts with getCachedResume(cacheKey)
CacheLookup ==
  /\ pc = "cache"
  /\ \E key \in nextKeys(resumeCache) :
       resumeCache' = getCachedResume(resumeCache, key, now).cache
  /\ UNCHANGED <<pc, pipelineVars, fnVars, reqs, solo, stageAverages, sessionStats,
                 lastAttemptFile, now, streamVars, filesVars>>

\* time passes: every entry stored so far becomes older than CACHE_TTL_MS
CacheTick ==
  /\ pc = "cache"
  /\ \E later \in Instants : later > now /\ now' = later
  /\ UNCHANGED <<pc, pipelineVars, fnVars, reqs, solo, stageAverages, sessionStats,
                 lastAttemptFile, resumeCache, streamVars, filesVars>>

CacheNext == CacheStore \/ CacheLookup \/ CacheTick

CacheSpec == CacheInit /\ [][CacheNext]_vars

\* C20 as stated: after any sequence of cacheResume calls the cache holds at
\* most CACHE_MAX_ENTRIES entries.
C20_Original == Cardinality(DOMAIN resumeCache) <= CACHE_MAX_ENTRIES

(***************************************************************************)
(* Two requests served concurrently by one server.  Each request is also   *)
(* followed on a server of its own (solo), where it is given the same      *)
(* answers by its collaborators at the same steps.                         *)
(***************************************************************************)
MaxSeconds == 20

Requests == {1, 2}

\* what a compilation may take in seconds, as rounded by the guard: less
\* than half a second, or as long as a call of the generator or of the
\* compression collaborator, which takes MaxSeconds
Durations == {0, MaxSeconds}

\* the payload of sendProgress; etaSeconds is -1 when the payload has none
Event(stage, eta) == [stage |-> stage, etaSeconds |-> eta]

NewRequest(key) ==
  [pc |-> "received", key |-> key, hit |-> FALSE, latex |-> Null, gLatex |-> Null,
   attempt |-> 0, rLatex |-> Null, rAttempt |-> 0, fixesApplied |-> <<>>,
   refined |-> FALSE, events |-> <<>>, response |-> NoResponse]

Step(q, s) == [req |-> q, srv |-> s]

\* the request ends: the last event and the response
finish(q, stage, eta, resp) ==
  [q EXCEPT !.pc = "done",
            !.events = Append(@, Event(stage, eta)),
            !.response = resp]

failedResponse(q) ==
  [status |-> 200, type |-> "compilation_failed", pdf |-> NoPdf, latex |-> q.latex]

\* router.post('/generate-resume') up to the call of the generator
received(q, s, t) ==
  LET first == Event("received", estimateRemaining(s.stageAverages, <<"llm", "compile">>))
      found == getCachedResume(s.resumeCache, q.key, t)
  IN  IF found.pdf # NoPdf
        THEN Step(finish([q EXCEPT !.hit = TRUE, !.events = Append(@, first)], "done", 0,
                         [status |-> 200, type |-> "pdf", pdf |-> found.pdf, latex |-> Null]),
                  [s EXCEPT !.resumeCache = found.cache,
                            !.sessionStats = [@ EXCEPT !.cacheHits = @ + 1,
                                                       !.totalResumes = @ + 1]])
        ELSE Step([q EXCEPT !.pc = "llm_wait",
                            !.events = @ \o <<first,
                               Event("llm_start",
                                     estimateRemaining(s.stageAverages, <<"llm", "compile">>))>>],
                  [s EXCEPT !.resumeCache = found.cache])

\* the generator answers after durationSeconds: the call is aborted, the
\* answer is an HTTP error, or it carries a text
generated(q, s, answer, durationSeconds) ==
  IF answer = <<"abort">>
    THEN Step(finish(q, "error", -1,
                     [status |-> 504, type |-> "timeout", pdf |-> NoPdf, latex |-> Null]), s)
    ELSE
      LET avg == updateAverage(s.stageAverages, "llm", durationSeconds)
          s1 == [s EXCEPT !.stageAverages = avg]
          q1 == [q EXCEPT !.events =
                   Append(@, Event("llm_done", estimateRemaining(avg, <<"compile">>)))]
          doc == extractLatexFromResponse(answer)
      IN  IF answer = <<"http_error">>
            THEN Step([q1 EXCEPT !.pc = "done",
                                 !.response = [status |-> 500, type |-> "llm_error",
                                               pdf |-> NoPdf, latex |-> Null]], s1)
          ELSE IF doc = Null
            THEN Step(finish(q1, "error", -1,
                             [status |-> 500, type |-> "invalid_latex",
                              pdf |-> NoPdf, latex |-> Null]), s1)
          ELSE Step([q1 EXCEPT !.pc = "guard_pass",
                               !.latex = doc,
                               !.gLatex = doc,
                               !.attempt = 1,
                               !.events = Append(@, Event("compile_start",
                                                  estimateRemaining(avg, <<"compile">>)))],
                    s1)

\* compileLatexLocally saves a copy of what it compiles in the file shared
\* by all requests
debugCopy(file, local, latexSource) == IF local THEN latexSource ELSE file

\* compileWithTwoPageGuard from the top of the loop into compileLatexWithRetry
\* and the first compileLatexToPDF call, which goes to the local engine when
\* the remote backend is not used
passStarted(q, s) ==
  LET sanitized == sanitizedSource(q.gLatex)
      local == ~shouldUseRemote(sanitized)
  IN
    Step([q EXCEPT !.pc = "compile_wait",
                   !.events = Append(@, Event("compile_pass",
                                      estimateRemaining(s.stageAverages, <<"compile">>))),
                   !.rLatex = sanitized,
                   !.rAttempt = 1,
                   !.fixesApplied = IF sanitized # q.gLatex
                                      THEN <<"Pre-compilation sanitization">> ELSE <<>>],
         [s EXCEPT !.lastAttemptFile = debugCopy(@, local, sanitized)])

engineInputShared(ownFile, sharedFile) == sharedFile

\* the engine runs on main.tex in the directory made by fs.mkdtemp for this
\* call, not on the copy in the output directory
engineInput(ownFile, sharedFile) == ownFile

\* a compileLatexToPDF call returns: the rest of compileLatexWithRetry, of
\* the guard and of the route
compiled(q, s, t, ok, pageCount, log, durationSeconds) ==
  IF ok
    THEN
      LET local == ~shouldUseRemote(q.rLatex)
          pdf == Pdf(IF local THEN engineInput(q.rLatex, s.lastAttemptFile) ELSE q.rLatex,
                     pageCount, IF local THEN "local" ELSE "remote")
          s1 == [s EXCEPT !.stageAverages = updateAverage(@, "compile", durationSeconds)]
      IN  IF ~exceedsBudget(pageCount)
            THEN Step(finish(q, "done", 0,
                             [status |-> 200, type |-> "pdf", pdf |-> pdf, latex |-> Null]),
                      [s1 EXCEPT !.resumeCache = cacheResume(@, q.key, pdf, t),
                                 !.sessionStats =
                                    [@ EXCEPT !.totalResumes = @ + 1,
                                              !.refinements = IF q.refined THEN @ + 1 ELSE @]])
          ELSE IF isLastAttempt(q.attempt)
            THEN Step(finish(q, "error", -1, failedResponse(q)), s1)
          ELSE Step([q EXCEPT !.pc = "refine_wait",
                              !.gLatex = q.rLatex,
                              !.events = Append(@, Event("refine_start",
                                  estimateRemaining(s1.stageAverages, <<"refine", "compile">>)))],
                    s1)
    ELSE
      LET f == attemptLatexFix(q.rLatex, log) IN
        IF retriesExhausted(q.rAttempt) \/ noFixAvailable(f)
          THEN Step(finish(q, "error", -1, failedResponse(q)), s)
          ELSE Step([q EXCEPT !.rLatex = f.latex,
                              !.rAttempt = @ + 1,
                              !.fixesApplied = recordFix(@, f)],
                    [s EXCEPT !.lastAttemptFile =
                                debugCopy(@, ~shouldUseRemote(f.latex), f.latex)])

\* refineLatexToTwoPages returns or throws
refinedBy(q, s, answer, durationSeconds) ==
  LET doc == refinedFrom(answer) IN
    IF doc = Null \/ doc = <<>> \/ ~includes(doc, "BD")
      THEN Step(finish(q, "error", -1, failedResponse(q)), s)
      ELSE
        LET avg == updateAverage(s.stageAverages, "refine", durationSeconds) IN
          Step([q EXCEPT !.pc = "guard_pass",
                         !.gLatex = doc,
                         !.refined = TRUE,
                         !.attempt = @ + 1,
                         !.events = Append(@, Event("refine_done",
                                            estimateRemaining(avg, <<"compile">>)))],
               [s EXCEPT !.stageAverages = avg])

CurrentServer ==
  [stageAverages |-> stageAverages, sessionStats |-> sessionStats,
   resumeCache |-> resumeCache, lastAttemptFile |-> lastAttemptFile]

ConcInit ==
  /\ pc = "serving"
  /\ content = Null
  /\ preferLocal \in BOOLEAN
  /\ Fresh
  /\ FnIdle
  /\ ServerStarted
  /\ \E key \in Requests : reqs = [r \in Requests |-> NewRequest(IF r = 1 THEN 1 ELSE key)]
  /\ solo = [r \in Requests |-> Step(reqs[r], CurrentServer)]

\* request r takes a step on the shared server; its solo copy takes the
\* same step on its own server while it is at the same place
Serve(r, shared, alone) ==
  /\ reqs' = [reqs EXCEPT ![r] = shared.req]
  /\ stageAverages' = shared.srv.stageAverages
  /\ sessionStats' = shared.srv.sessionStats
  /\ resumeCache' = shared.srv.resumeCache
  /\ lastAttemptFile' = shared.srv.lastAttemptFile
  /\ solo' = [solo EXCEPT ![r] = IF solo[r].req.pc = reqs[r].pc THEN alone ELSE @]
  /\ UNCHANGED <<pc, pipelineVars, fnVars, now, streamVars, filesVars>>

ConcReceive(r) ==
  /\ pc = "serving" /\ reqs[r].pc = "received"
  /\ Serve(r, received(reqs[r], CurrentServer, now),
              received(solo[r].req, solo[r].srv, now))

ConcGenerate(r) ==
  /\ pc = "serving" /\ reqs[r].pc = "llm_wait"
  /\ \E answer \in {<<"abort">>, <<"http_error">>, <<"x">>, Wrap(<<"_">>)} :
       Serve(r, generated(reqs[r], CurrentServer, answer, MaxSeconds),
                generated(solo[r].req, solo[r].srv, answer, MaxSeconds))

ConcPass(r) ==
  /\ pc = "serving" /\ reqs[r].pc = "guard_pass"
  /\ Serve(r, passStarted(reqs[r], CurrentServer), passStarted(solo[r].req, solo[r].srv))

ConcCompiled(r) ==
  /\ pc = "serving" /\ reqs[r].pc = "compile_wait"
  /\ \E ok \in BOOLEAN, pageCount \in {PageBudget, PageBudget + 1},
        log \in {PlainLog, LogOf({MissingDollar}, "")}, d \in Durations :
       /\ ok => log = PlainLog
       /\ ~ok => pageCount = PageBudget /\ d = 0
       /\ Serve(r, compiled(reqs[r], CurrentServer, now, ok, pageCount, log, d),
                   compiled(solo[r].req, solo[r].srv, now, ok, pageCount, log, d))

ConcRefine(r) ==
  /\ pc = "serving" /\ reqs[r].pc = "refine_wait"
  /\ \E answer \in {<<"x">>, Wrap(<<"x">>)} :
       Serve(r, refinedBy(reqs[r], CurrentServer, answer, MaxSeconds),
                refinedBy(solo[r].req, solo[r].srv, answer, MaxSeconds))

ConcNext ==
  \E r \in Requests :
    \/ ConcReceive(r)
    \/ ConcGenerate(r)
    \/ ConcPass(r)
    \/ ConcCompiled(r)
    \/ ConcRefine(r)

ConcSpec == ConcInit /\ [][ConcNext]_vars

stagesOf(events) == [i \in DOMAIN events |-> events[i].stage]

\* everything of a request but the etaSeconds of its events
withoutEta(q) == [q EXCEPT !.events = stagesOf(@)]

\* C19 as stated: whatever the other request does, a request that is not
\* answered from the result cache has the documents, fixes, result and
\* progress events it has when it is served alone.
C19_Original ==
  pc = "serving" =>
    \A r \in Requests : ~reqs[r].hit => reqs[r] = solo[r].req

\* C19: whatever the other request does, a request that is not answered from
\* the result cache has the documents, fixes, result and stages of progress
\* events it has when it is served alone; only the etaSeconds of its events,
\* computed from the stage averages that all requests update, may differ.  A
\* request answered from the cache gets the PDF stored under its key.
C19_IndependentExceptEta ==
  pc = "serving" =>
    \A r \in Requests :
      /\ ~reqs[r].hit => withoutEta(reqs[r]) = withoutEta(solo[r].req)
      /\ reqs[r].hit =>
           /\ reqs[r].key \in DOMAIN resumeCache
           /\ reqs[r].response.pdf = resumeCache[reqs[r].key].pdfBuffer
           /\ \E o \in Requests \ {r} :
                reqs[o].key = reqs[r].key /\ reqs[o].response.pdf = reqs[r].response.pdf

\* both requests were compiled by the local engine, the second after a fix
\* of its document, and answered with a PDF; the first got an estimate that
\* it does not get when served alone
C19_Witness ==
  /\ pc = "serving"
  /\ reqs[1].pc = "done" /\ reqs[2].pc = "done"
  /\ preferLocal
  /\ reqs[1].response.type = "pdf" /\ reqs[2].response.type = "pdf"
  /\ ~reqs[1].hit /\ ~reqs[2].hit
  /\ reqs[1].rLatex # reqs[2].rLatex
  /\ Len(reqs[2].fixesApplied) > 0
  /\ reqs[1].events # solo[1].req.events
  /\ stagesOf(reqs[1].events) = stagesOf(solo[1].req.events)

(***************************************************************************)
(* attemptLatexFix                                                         *)
(***************************************************************************)
\* C23: when attemptLatexFix reports fixed: false the document it returns is
\* the document it was given and the description is 'No error log
\* available' (exactly when the log is empty) or 'No auto-fix available for
\* this error'; so no family changes the document without recording a fix.
C23_UnfixedIsUnchanged ==
  Applied("attemptLatexFix") /\ ~out.fixed =>
    /\ out.latex = arg.latex
    /\ out.description = IF arg.log.empty THEN <<"No error log available">>
                         ELSE <<"No auto-fix available for this error">>

\* a located 'Paragraph ended before' log for a document whose only blank
\* line is empty: nothing is removed and nothing is reported
C23_Witness ==
  /\ Applied("attemptLatexFix")
  /\ arg.log = LogAt({ParagraphEnded}, "", 2)
  /\ arg.latex = <<"{", "NL", "NL", "}">>
  /\ ~out.fixed

\* C24 as stated, for a document with one blank line in its interior and a
\* located 'Paragraph ended before' log without a titlesec marker: the blank
\* line is removed when it lies in the window (0-based index from
\* errorLine - 5 up to errorLine + 1) and the line before it holds an
\* opening brace or the line after it holds a brace; otherwise the document
\* is returned unchanged.
C24_Original ==
  Applied("attemptLatexFix") /\ arg.log \in {LogAt({ParagraphEnded}, "", n) : n \in 1..2} =>
    LET lines == splitLines(arg.latex)
        blanks == {i \in 1..Len(lines) : trim(lines[i]) = <<>>}
    IN  \A b \in blanks :
          blanks = {b} /\ 1 < b /\ b < Len(lines) =>
            LET inWindow == arg.log.errorLine - 5 <= b - 1 /\ b - 1 < arg.log.errorLine + 2
                context == \/ hasLeftBrace(lines[b - 1])
                           \/ hasRightBrace(lines[b + 1])
                           \/ hasLeftBrace(lines[b + 1])
            IN  out.latex = IF inWindow /\ context
                              THEN joinLines(SubSeq(lines, 1, b - 1) \o
                                             SubSeq(lines, b + 1, Len(lines)))
                              ELSE arg.latex

\* C27 as stated: when attemptLatexFix reports fixed: true the document it
\* returns differs from the document it was given.
C27_Original ==
  Applied("attemptLatexFix") /\ out.fixed => out.latex # arg.latex

\* C26 as stated: the escaping pass changes only the body: the preamble, up
\* to and including the first \begin{document}, and the tail, from the last
\* \end{document} on, are in the result what they are in the input.
C26_Original ==
  Applied("fixUnescapedSpecialChars") =>
    LET begin(d) == CHOOSE i \in 1..Len(d) : d[i] = "BD" /\ \A j \in 1..(i - 1) : d[j] # "BD"
        preamble(d) == SubSeq(d, 1, begin(d))
        tail(d) == SubSeq(d, lastIndexOf(d, "ED"), Len(d))
    IN  preamble(out) = preamble(arg) /\ tail(out) = tail(arg)

(***************************************************************************)
(* The end of the request                                                  *)
(***************************************************************************)
\* C30 as stated: when the compile loop produced a PDF measured at no more
\* than PageBudget pages, the response of the request is that PDF, also when saving the copy
\* to the output directory fails.
C30_Original ==
  pc = "done" /\ pdfBuffer.pages \in 0..PageBudget =>
    response.type = "pdf" /\ response.pdf = pdfBuffer

(***************************************************************************)
(* The result cache and the progress events of concurrent requests         *)
(***************************************************************************)
\* C22: a request answered from the result cache made no call of the
\* generator, of the Compiler Adapter or of the compression collaborator and
\* is answered with the PDF stored under its key; every entry of the cache
\* is the PDF of a request with that key that was compiled and passed the
\* page guard, so it has at most PageBudget pages.
C22_ReadBeforeWriteAfter ==
  pc = "serving" =>
    /\ \A r \in Requests :
         reqs[r].hit =>
           /\ stagesOf(reqs[r].events) = <<"received", "done">>
           /\ reqs[r].latex = Null /\ reqs[r].attempt = 0 /\ reqs[r].rAttempt = 0
           /\ ~reqs[r].refined
           /\ reqs[r].response.type = "pdf"
           /\ reqs[r].response.pdf = resumeCache[reqs[r].key].pdfBuffer
    /\ \A k \in DOMAIN resumeCache :
         /\ resumeCache[k].pdfBuffer.pages \in 0..PageBudget
         /\ \E o \in Requests :
              /\ reqs[o].key = k /\ ~reqs[o].hit /\ reqs[o].pc = "done"
              /\ \E i \in DOMAIN reqs[o].events : reqs[o].events[i].stage = "compile_pass"
              /\ reqs[o].response.pdf = resumeCache[k].pdfBuffer

\* the second request is answered from the cache with the PDF the first one
\* got from a second pass, after the compression round
C22_Witness ==
  /\ pc = "serving"
  /\ reqs[1].refined /\ reqs[1].response.type = "pdf"
  /\ reqs[2].hit /\ reqs[2].response.pdf = reqs[1].response.pdf

\* C28 as stated: whenever the HTTP response of a request has been sent, the
\* last progress event recorded for it has stage 'done' or 'error'.
C28_Original ==
  pc = "serving" =>
    \A r \in Requests :
      reqs[r].response # NoResponse =>
        /\ reqs[r].events # <<>>
        /\ reqs[r].events[Len(reqs[r].events)].stage \in {"done", "error"}

(***************************************************************************)
(* The progress stream of one request id: GET /progress/:id connections,   *)
(* sendProgress, closeProgress, and the request that reports its progress  *)
(***************************************************************************)
StreamState(entry, last, conns) == [progressClients |-> entry, progressLast |-> last, clients |-> conns]

\* sendProgress(requestId, payload)
sendProgress(st, stage) ==
  [st EXCEPT !.progressLast = stage,
             !.clients = IF st.progressClients = NoClient THEN @
                         ELSE [@ EXCEPT ![st.progressClients].written = Append(@, stage)]]

RECURSIVE sendAll(_, _)
sendAll(st, stages) ==
  IF stages = <<>> THEN st ELSE sendAll(sendProgress(st, Head(stages)), Tail(stages))

\* closeProgress(requestId)
closeProgress(st) ==
  IF st.progressClients = NoClient THEN st
  ELSE [st EXCEPT !.clients[st.progressClients].state = "ended",
                  !.progressClients = NoClient]

\* what can happen to the request at each place where it waits
Outcomes(place) ==
  CASE place = "none" -> {"invalid", "hit", "no_key", "miss"}
    [] place = "llm_wait" -> {"abort", "http_error", "invalid_latex", "document"}
    [] place = "compile_wait" -> {"pdf", "failed"}
    [] OTHER -> {}

Leg(place, sends, close, resp) == [pc |-> place, sends |-> sends, close |-> close, response |-> resp]

\* router.post('/generate-resume') from one wait to the next: the progress
\* events it sends, whether it calls closeProgress, the response it sends
routeLeg(place, outcome) ==
  CASE outcome = "invalid" -> Leg("done", <<"received", "error">>, FALSE, "400")
    [] outcome = "hit" -> Leg("done", <<"received", "done">>, TRUE, "pdf")
    [] outcome = "no_key" -> Leg("done", <<"received", "error">>, FALSE, "500")
    [] outcome = "miss" -> Leg("llm_wait", <<"received", "llm_start">>, FALSE, "none")
    [] outcome = "abort" -> Leg("done", <<"error">>, FALSE, "504")
    [] outcome = "http_error" -> Leg("done", <<"llm_done">>, FALSE, "500")
    [] outcome = "invalid_latex" -> Leg("done", <<"llm_done", "error">>, FALSE, "500")
    [] outcome = "document" ->
         Leg("compile_wait", <<"llm_done", "compile_start", "compile_pass">>, FALSE, "none")
    [] outcome = "pdf" -> Leg("done", <<"done">>, TRUE, "pdf")
    [] outcome = "failed" -> Leg("done", <<"error">>, TRUE, "compilation_failed")

advance(t, leg) ==
  [pc |-> leg.pc, events |-> t.events \o leg.sends, response |-> leg.response]

onClientCloseAborts(t) == IF t.pc = "done" THEN t ELSE [t EXCEPT !.pc = "aborted"]

\* req.on('close') of the stream: nothing of the request is touched
onClientClose(t) == t

StreamInit ==
  /\ pc = "streaming"
  /\ content = Null
  /\ preferLocal = FALSE
  /\ Fresh
  /\ FnIdle
  /\ ServerIdle

streamFrame ==
  <<pc, pipelineVars, fnVars, reqs, solo, stageAverages, sessionStats, resumeCache,
    lastAttemptFile, now, filesVars>>

\* the request runs to its next wait or to its response
TaskStep ==
  /\ pc = "streaming"
  /\ \E outcome \in Outcomes(task.pc) :
       LET leg == routeLeg(task.pc, outcome)
           sent == sendAll(StreamState(progressClients, progressLast, clients), leg.sends)
           st == IF leg.close THEN closeProgress(sent) ELSE sent
       IN  /\ task' = advance(task, leg)
           /\ quiet' = advance(quiet, routeLeg(quiet.pc, outcome))
           /\ progressClients' = st.progressClients
           /\ progressLast' = st.progressLast
           /\ clients' = st.clients
  /\ UNCHANGED streamFrame

\* router.get('/progress/:id'): register the connection, replay the last event
Connect(c) ==
  /\ pc = "streaming"
  /\ clients[c].state = "none"
  /\ progressClients' = c
  /\ clients' = [clients EXCEPT ![c] =
                   [state |-> "open", since |-> Len(task.events), until |-> 0,
                    replayed |-> IF progressLast # "none" THEN progressLast ELSE "connected",
                    written |-> <<>>]]
  /\ UNCHANGED <<progressLast, task, quiet, streamFrame>>

\* the client goes away: req.on('close')
Disconnect(c) ==
  /\ pc = "streaming"
  /\ clients[c].state = "open"
  /\ clients' = [clients EXCEPT ![c].state = "closed", ![c].until = Len(task.events)]
  /\ progressClients' = NoClient
  /\ task' = onClientClose(task)
  /\ UNCHANGED <<progressLast, quiet, streamFrame>>

\* req.on('close') of a connection that closeProgress has ended
CloseAfterEnd(c) ==
  /\ pc = "streaming"
  /\ clients[c].state = "ended"
  /\ clients' = [clients EXCEPT ![c].state = "finished"]
  /\ progressClients' = NoClient
  /\ task' = onClientClose(task)
  /\ UNCHANGED <<progressLast, quiet, streamFrame>>

StreamNext ==
  \/ TaskStep
  \/ \E c \in Conns : Connect(c) \/ Disconnect(c) \/ CloseAfterEnd(c)

StreamSpec == StreamInit /\ [][StreamNext]_vars

C29_Original ==
  \A c \in Conns :
    clients[c].state = "open" =>
      clients[c].written = SubSeq(task.events, clients[c].since + 1, Len(task.events))

(***************************************************************************)
(* files-api.js: getOrUploadResumeFile called by concurrent requests       *)
(***************************************************************************)
\* master resumes: two that differ in surrounding white space only, and a
\* third one
Resumes == {<<"x">>, <<"x", "SP">>, <<"y">>}

\* getContentHash: a digest of content.trim(); equal exactly for equal
\* trimmed contents
getContentHash(masterResume) == trim(masterResume)

UploadInit ==
  /\ pc = "uploading"
  /\ content = Null
  /\ preferLocal = FALSE
  /\ Fresh
  /\ FnIdle
  /\ ServerIdle

filesFrame ==
  <<pc, pipelineVars, fnVars, reqs, solo, stageAverages, sessionStats, resumeCache,
    lastAttemptFile, now, streamVars>>

\* getOrUploadResumeFile up to its await: return the cached file_id, or
\* start the upload
GetOrUpload(c) ==
  /\ pc = "uploading"
  /\ uploaders[c].pc = "idle"
  /\ \E masterResume \in Resumes :
       LET hash == getContentHash(masterResume) IN
         uploaders' = [uploaders EXCEPT ![c] =
           IF \E i \in DOMAIN fileIdCache : fileIdCache[i].hash = hash
             THEN [pc |-> "returned", content |-> masterResume,
                   fileId |-> (CHOOSE e \in {fileIdCache[i] : i \in DOMAIN fileIdCache} :
                                 e.hash = hash).fileId]
             ELSE [pc |-> "awaiting", content |-> masterResume, fileId |-> 0]]
  /\ UNCHANGED <<fileIdCache, filesApi, filesFrame>>

\* fileIdCache.set(hash, { fileId, createdAt })
cacheFileId(cache, hash, fileId) ==
  IF \E i \in DOMAIN cache : cache[i].hash = hash
    THEN [i \in DOMAIN cache |->
            IF cache[i].hash = hash THEN [hash |-> hash, fileId |-> fileId] ELSE cache[i]]
    ELSE Append(cache, [hash |-> hash, fileId |-> fileId])

\* the Files API answers: the file is stored and its id cached and
\* returned, or the upload failed and the call throws
UploadResponds(c) ==
  /\ pc = "uploading"
  /\ uploaders[c].pc = "awaiting"
  /\ \E ok \in BOOLEAN :
       IF ok
         THEN /\ filesApi' = Append(filesApi, uploaders[c].content)
              /\ fileIdCache' = cacheFileId(fileIdCache, getContentHash(uploaders[c].content),
                                            Len(filesApi) + 1)
              /\ uploaders' = [uploaders EXCEPT ![c].pc = "returned",
                                                ![c].fileId = Len(filesApi) + 1]
         ELSE /\ uploaders' = [uploaders EXCEPT ![c].pc = "failed"]
              /\ UNCHANGED <<fileIdCache, filesApi>>
  /\ UNCHANGED filesFrame

UploadNext == \E c \in Callers : GetOrUpload(c) \/ UploadResponds(c)

UploadSpec == UploadInit /\ [][UploadNext]_vars

\* C25 as stated: the Files API is sent the same master-resume content at
\* most once; contents are the same when their hashes are.
C25_Original ==
  \A i, j \in DOMAIN filesApi :
    getContentHash(filesApi[i]) = getContentHash(filesApi[j]) => i = j

====
